---- MODULE Spec2Model ----
(***************************************************************************)
(* Model of src/app.py: the five Flask request handlers of the TMDB        *)
(* reporting backend and the MongoDB collection `movies` they read.        *)
(*                                                                         *)
(* One request is in flight at a time inside the modelled worker.  A       *)
(* handler is one action per store call it makes, so that the store can    *)
(* fail, recover or (under SpecConc) be written by other clients between   *)
(* two calls of the same request.                                          *)
(***************************************************************************)
EXTENDS Integers, Sequences, FiniteSets, TLC

VARIABLES
    movies,   \* ids of the documents currently in collection `movies`
    health,   \* "up", "down" (store unreachable), "unbound" (never connected)
    pc,       \* position of the worker: "idle", a handler label, or "done"
    req,      \* the request being handled: [endpoint, args]
    locals,   \* local variables of the running handler
    resp,     \* the response sent: [status, body]
    calls,    \* store calls issued by this request, in order
    held      \* store contents that existed at some instant of this request

vars == <<movies, health, pc, req, locals, resp, calls, held>>

-----------------------------------------------------------------------------
(* Bounds of the model *)

NumMovies == 3        \* small documents of the catalogue that may be stored
MaxWrites == 1        \* writes of other clients followed during one request
MaxLimitLen == 2      \* longest text of the `limit` query parameter

(* Program constants *)

GenresDefaultLimit == 10
GenresMaxLimit == 50
DirectorsDefaultLimit == 5
DirectorsMaxLimit == 30
SearchLimit == 10
StatsDirectorLimit == 1

-----------------------------------------------------------------------------
(* Text.  A text whose characters matter (names, the regex q, the limit    *)
(* parameter) is a sequence of one-character strings.                      *)

Drama == <<"D", "r", "a">>
Comedy == <<"C", "o">>
Action == <<"A", "c">>
Ana == <<"A", "n", "a">>
Bo == <<"B", "o">>
Cy == <<"C", "y">>

Letters == <<"a", "b", "c", "d", "e", "f", "g", "h", "i", "j", "k", "l", "m">>

UpperCase == <<"A", "B", "C", "D", "G", "W">>
LowerCase == <<"a", "b", "c", "d", "g", "w">>

Lower(c) ==
    IF \E i \in 1..Len(UpperCase) : UpperCase[i] = c
    THEN LowerCase[CHOOSE i \in 1..Len(UpperCase) : UpperCase[i] = c]
    ELSE c

-----------------------------------------------------------------------------
(* The movie documents.  Document 0 is a wide one: WideGroups genres and   *)
(* WideGroups directors, the i-th listed i times, so that a search can     *)
(* match more groups than SearchLimit and the group totals are distinct.   *)

WideGroups == SearchLimit + 1

RECURSIVE Repeat(_, _)
Repeat(e, n) == IF n = 0 THEN <<>> ELSE <<e>> \o Repeat(e, n - 1)

WideGenre(i) == [name |-> <<"G", Letters[((i - 1) % Len(Letters)) + 1]>>]
WideCrew(i) == [name |-> <<"W", Letters[((i - 1) % Len(Letters)) + 1]>>, job |-> "Director"]

RECURSIVE WideGenres(_)
WideGenres(n) ==
    IF n = 0 THEN <<>> ELSE WideGenres(n - 1) \o Repeat(WideGenre(n), n)

RECURSIVE WideCrews(_)
WideCrews(n) ==
    IF n = 0 THEN <<>> ELSE WideCrews(n - 1) \o Repeat(WideCrew(n), n)

CatalogueDoc(id) ==
    CASE id = 0 ->
           [genres |-> WideGenres(WideGroups),
            crew |-> WideCrews(WideGroups),
            revenue |-> 1]
      [] id = 1 ->
           [genres |-> <<[name |-> Drama]>>,
            crew |-> <<[name |-> Ana, job |-> "Director"]>>,
            revenue |-> 100]
      [] id = 2 ->
           [genres |-> <<>>,
            crew |-> <<[name |-> Bo, job |-> "director"],
                       [name |-> Cy, job |-> "Producer"]>>,
            revenue |-> 70]
      [] id = 3 ->
           [genres |-> <<[name |-> Comedy], [name |-> Drama]>>,
            crew |-> <<[name |-> Ana, job |-> "Director"],
                       [name |-> Cy, job |-> "Producer"],
                       [name |-> Ana, job |-> "Director"],
                       [name |-> Bo, job |-> "director"],
                       [name |-> Cy, job |-> "Director"],
                       [name |-> Bo, job |-> "Director"],
                       [name |-> Bo, job |-> "Director"]>>,
            revenue |-> 25]
      [] id = 4 ->
           [genres |-> <<[name |-> Drama]>>,
            crew |-> <<[name |-> Bo, job |-> "Director"]>>,
            revenue |-> 50]
      [] OTHER ->
           [genres |-> <<[name |-> Action]>>,
            crew |-> <<[name |-> Cy, job |-> "Director"]>>,
            revenue |-> 10 * id]

MovieIds == 0..NumMovies

Catalogue == [id \in MovieIds |-> CatalogueDoc(id)]

\* the document stored under an id
MovieDoc(id) == Catalogue[id]

-----------------------------------------------------------------------------
(* Query parameters: request.args is a function from the names of the      *)
(* parameters present to their text.                                       *)

LimitChars == {"-", "0", "4", "9"}
Digits == <<"0", "1", "2", "3", "4", "5", "6", "7", "8", "9">>

LimitTexts == UNION {[1..n -> LimitChars] : n \in 0..MaxLimitLen}
SortTexts == {"asc", "desc", "xyz"}
QTexts == {<<>>, <<"d", "r">>, <<"a">>, <<"g">>, <<"w">>, <<".">>, <<"(">>, <<"z">>}

NoArgs == <<>>

ReportArgs ==
    {l @@ s : l \in {NoArgs} \cup {"limit" :> t : t \in LimitTexts},
              s \in {NoArgs} \cup {"sort" :> t : t \in SortTexts}}

SearchArgs == {NoArgs} \cup {"q" :> t : t \in QTexts}

IsDigit(c) == \E i \in 1..Len(Digits) : Digits[i] = c
DigitVal(c) == (CHOOSE i \in 1..Len(Digits) : Digits[i] = c) - 1

RECURSIVE DigitsVal(_)
DigitsVal(t) ==
    IF t = <<>> THEN 0
    ELSE 10 * DigitsVal(SubSeq(t, 1, Len(t) - 1)) + DigitVal(t[Len(t)])

\* int(text): an optional sign followed by at least one decimal digit
IsIntText(t) ==
    LET body == IF Len(t) > 0 /\ t[1] = "-" THEN Tail(t) ELSE t
    IN  Len(body) > 0 /\ \A i \in 1..Len(body) : IsDigit(body[i])

IntOfText(t) ==
    IF t[1] = "-" THEN 0 - DigitsVal(Tail(t)) ELSE DigitsVal(t)

\* request.args.get(key, default=d, type=str)
ArgsGet(args, key, default) ==
    IF key \in DOMAIN args THEN args[key] ELSE default

\* request.args.get(key, default=d, type=int): a text int() rejects gives d
ArgsGetInt(args, key, default) ==
    IF key \notin DOMAIN args THEN default
    ELSE IF IsIntText(args[key]) THEN IntOfText(args[key])
    ELSE default

Max(a, b) == IF a >= b THEN a ELSE b
Min(a, b) == IF a <= b THEN a ELSE b

\* limit = max(1, min(limit, upper))
ClampLimitNoFloor(limit, upper) == Min(limit, upper)
ClampLimit(limit, upper) == Max(1, Min(limit, upper))

\* sort_direction = -1 if sort_order == 'desc' else 1
SortDirectionUnlessAsc(sort_order) == IF sort_order = "asc" THEN 1 ELSE -1
SortDirection(sort_order) == IF sort_order = "desc" THEN -1 ELSE 1

-----------------------------------------------------------------------------
(* The aggregation stages the handlers use, over a set of stored ids.      *)

\* {'$unwind': '$field'}: one row per element of the list, keeping the
\* parent's revenue; (doc, idx) keeps the rows of one list apart.  A document
\* whose list is empty yields no row.
Unwind(docs, field) ==
    UNION {{[doc |-> d, idx |-> i, elem |-> MovieDoc(d)[field][i],
             revenue |-> MovieDoc(d).revenue] :
               i \in 1..Len(MovieDoc(d)[field])} : d \in docs}

\* {'crew.job': 'Director'}: exact, case-sensitive equality
JobIsDirectorAny(row) == TRUE
JobIsDirector(row) == row.elem.job = "Director"

\* a regex this model covers: literal characters, "." for any character,
\* and "(" which, never closed here, makes the pattern invalid
RegexValid(pattern) == \A i \in 1..Len(pattern) : pattern[i] # "("

\* {'$regex': pattern, '$options': 'i'}: unanchored, case-insensitive
RegexSearch(pattern, text) ==
    \E s \in 0..(Len(text) - Len(pattern)) :
        \A i \in 1..Len(pattern) :
            pattern[i] = "." \/ Lower(pattern[i]) = Lower(text[s + i])

RECURSIVE SumRevenue(_)
SumRevenue(rows) ==
    IF rows = {} THEN 0
    ELSE LET r == CHOOSE x \in rows : TRUE
         IN  r.revenue + SumRevenue(rows \ {r})

\* {'$group': {'_id': '$genres.name', 'conteo': {'$sum': 1}}}
GroupCount(rows) ==
    {[_id |-> k, conteo |-> Cardinality({r \in rows : r.elem.name = k})] :
        k \in {r.elem.name : r \in rows}}

\* {'$group': {'_id': '$crew.name', 'ingresos_totales': {'$sum': '$revenue'}}}
GroupRevenue(rows) ==
    {[_id |-> k, ingresos_totales |-> SumRevenue({r \in rows : r.elem.name = k})] :
        k \in {r.elem.name : r \in rows}}

\* {'$group': {'_id': '$genres.name'}}
GroupNames(rows) == {[_id |-> k] : k \in {r.elem.name : r \in rows}}

\* {'$sort': {field: direction}}: every order of the groups that is sorted
\* on the field; the store leaves the order of equal keys open
RECURSIVE SortBy(_, _, _)
SortBy(groups, field, direction) ==
    IF groups = {} THEN {<<>>}
    ELSE LET first == {g \in groups : \A o \in groups :
                          IF direction = 1 THEN g[field] <= o[field]
                                           ELSE g[field] >= o[field]}
         IN  UNION {{<<g>> \o t : t \in SortBy(groups \ {g}, field, direction)} :
                       g \in first}

\* {'$limit': n}
LimitNone(rows, n) == rows
Limit(rows, n) == SubSeq(rows, 1, Min(n, Len(rows)))

\* {'$count': 'total'}: no document at all when there is no group
CountStage(groups) ==
    IF groups = {} THEN <<>> ELSE <<[total |-> Cardinality(groups)]>>

-----------------------------------------------------------------------------
(* The pipelines of the handlers: the set of results the store may return. *)

TopGenresPipeline(docs, direction, limit) ==
    {Limit(s, limit) :
        s \in SortBy(GroupCount(Unwind(docs, "genres")), "conteo", direction)}

TopDirectorsPipeline(docs, direction, limit) ==
    {Limit(s, limit) :
        s \in SortBy(GroupRevenue({r \in Unwind(docs, "crew") : JobIsDirector(r)}),
                     "ingresos_totales", direction)}

SearchGenresPipeline(docs, query) ==
    {Limit(s, SearchLimit) :
        s \in SortBy(GroupCount({r \in Unwind(docs, "genres") :
                                    RegexSearch(query, r.elem.name)}),
                     "conteo", -1)}

SearchDirectorsPipeline(docs, query) ==
    {Limit(s, SearchLimit) :
        s \in SortBy(GroupRevenue({r \in Unwind(docs, "crew") :
                                      JobIsDirector(r) /\ RegexSearch(query, r.elem.name)}),
                     "ingresos_totales", -1)}

StatsGenresPipeline(docs) == CountStage(GroupNames(Unwind(docs, "genres")))

StatsDirectorPipelineAsc(docs) ==
    {Limit(s, StatsDirectorLimit) :
        s \in SortBy(GroupRevenue({r \in Unwind(docs, "crew") : JobIsDirector(r)}),
                     "ingresos_totales", 1)}
StatsDirectorPipeline(docs) ==
    {Limit(s, StatsDirectorLimit) :
        s \in SortBy(GroupRevenue({r \in Unwind(docs, "crew") : JobIsDirector(r)}),
                     "ingresos_totales", -1)}

\* collection.count_documents({})
CountDocumentsStale(docs) == Cardinality(docs) + 1
CountDocuments(docs) == Cardinality(docs)

-----------------------------------------------------------------------------
(* The store client.                                                       *)

\* the methods of `collection` the handlers call
AggregateOp == "aggregate"
CountOpDeleting == "delete_many"
CountOp == "count_documents"

\* what the collection holds after a call that returned: aggregate (with the stages above)
\* and count_documents read; delete_many({}) removes every document
CollectionAfter(op, docs) ==
    IF op \in {"aggregate", "count_documents"} THEN docs ELSE {}

\* the exception a store call raises, "" when it returns: NameError when
\* `collection` was never bound, a timeout when the store is unreachable,
\* OperationFailure when the store rejects the pipeline
CallError(h, pipelineOk) ==
    IF h = "unbound" THEN "name 'collection' is not defined"
    ELSE IF h = "down" THEN "ServerSelectionTimeoutError"
    ELSE IF ~pipelineOk THEN "OperationFailure: Regular expression is invalid"
    ELSE ""

Call(op, err, limit) == [op |-> op, ok |-> (err = ""), at |-> movies, limit |-> limit]

-----------------------------------------------------------------------------
(* Responses.  body is the JSON value; a JSON array is [list |-> rows].    *)

NoResp == [status |-> 0, body |-> [none |-> TRUE]]
Null == [null |-> TRUE]

\* return jsonify({"error": str(e)}), 500
Error500As200(msg) == [status |-> 200, body |-> [error |-> msg]]
Error500(msg) == [status |-> 500, body |-> [error |-> msg]]

Error400 == [status |-> 400, body |-> [error |-> "Parámetro 'q' requerido"]]

IndexBodyProbe == [status |-> "API corriendo", db_conectada |-> (health = "up")]
IndexBody == [status |-> "API corriendo", db_conectada |-> TRUE]

FormatGenres(data) ==
    [i \in 1..Len(data) |-> [nombre |-> data[i]._id, conteo |-> data[i].conteo]]

FormatDirectors(data) ==
    [i \in 1..Len(data) |->
        [director |-> data[i]._id, ingresos_totales |-> data[i].ingresos_totales]]

\* if not query
QueryMissingNever(query) == FALSE
QueryMissing(query) == query = <<>>

\* genre_result[0]['total'] if genre_result else 0
TotalGenres(genre_result) ==
    IF genre_result # <<>> THEN genre_result[1].total ELSE 0

\* top_director[0] if top_director else None
TopDirector(top_director) ==
    IF top_director # <<>> THEN top_director[1] ELSE Null

NoLocals ==
    [limit |-> 0, sort_direction |-> 0, query |-> <<>>, genres |-> <<>>,
     total_movies |-> 0, total_genres |-> 0]

-----------------------------------------------------------------------------
(* Initial state: any stored subset of the catalogue, any store health,    *)
(* no request yet.                                                         *)

Init ==
    /\ movies \in SUBSET MovieIds
    /\ health \in {"up", "down", "unbound"}
    /\ pc = "idle"
    /\ req = [endpoint |-> "none", args |-> NoArgs]
    /\ locals = NoLocals
    /\ resp = NoResp
    /\ calls = <<>>
    /\ held = {movies}

Endpoints ==
    {"index", "get_top_genres", "get_top_directors_revenue", "search", "get_stats"}

ArgsOf(endpoint) ==
    CASE endpoint \in {"get_top_genres", "get_top_directors_revenue"} -> ReportArgs
      [] endpoint = "search" -> SearchArgs
      [] OTHER -> {NoArgs}

\* the HTTP layer routes a request to its handler
Receive(endpoint, args) ==
    /\ pc = "idle"
    /\ req' = [endpoint |-> endpoint, args |-> args]
    /\ pc' = endpoint
    /\ locals' = NoLocals
    /\ resp' = NoResp
    /\ calls' = <<>>
    /\ held' = {movies}
    /\ UNCHANGED <<movies, health>>

\* the response has been sent; the worker is free for the next request
Respond ==
    /\ pc = "done"
    /\ pc' = "idle"
    /\ req' = [endpoint |-> "none", args |-> NoArgs]
    /\ locals' = NoLocals
    /\ resp' = NoResp
    /\ calls' = <<>>
    /\ held' = {movies}
    /\ UNCHANGED <<movies, health>>

index ==
    /\ pc = "index"
    /\ resp' = [status |-> 200, body |-> IndexBody]
    /\ pc' = "done"
    /\ UNCHANGED <<movies, health, req, locals, calls, held>>

get_top_genres ==
    /\ pc = "get_top_genres"
    /\ LET limit == ClampLimit(ArgsGetInt(req.args, "limit", GenresDefaultLimit),
                               GenresMaxLimit)
           sort_direction == SortDirection(ArgsGet(req.args, "sort", "desc"))
           err == CallError(health, TRUE)
       IN  /\ locals' = [locals EXCEPT !.limit = limit, !.sort_direction = sort_direction]
           /\ calls' = Append(calls, Call(AggregateOp, err, limit))
           /\ movies' = (IF err = "" THEN CollectionAfter(AggregateOp, movies) ELSE movies)
           /\ IF err # ""
              THEN resp' = Error500(err)
              ELSE \E data \in TopGenresPipeline(movies, sort_direction, limit) :
                      resp' = [status |-> 200, body |-> [list |-> FormatGenres(data)]]
    /\ pc' = "done"
    /\ UNCHANGED <<health, req, held>>

get_top_directors_revenue ==
    /\ pc = "get_top_directors_revenue"
    /\ LET limit == ClampLimit(ArgsGetInt(req.args, "limit", DirectorsDefaultLimit),
                               DirectorsMaxLimit)
           sort_direction == SortDirection(ArgsGet(req.args, "sort", "desc"))
           err == CallError(health, TRUE)
       IN  /\ locals' = [locals EXCEPT !.limit = limit, !.sort_direction = sort_direction]
           /\ calls' = Append(calls, Call(AggregateOp, err, limit))
           /\ movies' = (IF err = "" THEN CollectionAfter(AggregateOp, movies) ELSE movies)
           /\ IF err # ""
              THEN resp' = Error500(err)
              ELSE \E data \in TopDirectorsPipeline(movies, sort_direction, limit) :
                      resp' = [status |-> 200, body |-> [list |-> FormatDirectors(data)]]
    /\ pc' = "done"
    /\ UNCHANGED <<health, req, held>>

\* search, up to and including the genre aggregation
search ==
    /\ pc = "search"
    /\ LET query == ArgsGet(req.args, "q", <<>>)
           err == CallError(health, RegexValid(query))
       IN  IF QueryMissing(query)
           THEN /\ resp' = Error400
                /\ pc' = "done"
                /\ UNCHANGED <<movies, locals, calls>>
           ELSE /\ calls' = Append(calls, Call(AggregateOp, err, SearchLimit))
                /\ movies' = (IF err = "" THEN CollectionAfter(AggregateOp, movies) ELSE movies)
                /\ IF err # ""
                   THEN /\ resp' = Error500(err)
                        /\ pc' = "done"
                        /\ locals' = [locals EXCEPT !.query = query]
                   ELSE /\ \E genres \in SearchGenresPipeline(movies, query) :
                              locals' = [locals EXCEPT !.query = query, !.genres = genres]
                        /\ pc' = "search_directors"
                        /\ UNCHANGED resp
    /\ UNCHANGED <<health, req, held>>

\* search, from the director aggregation to the response
search_directors ==
    /\ pc = "search_directors"
    /\ LET err == CallError(health, RegexValid(locals.query))
       IN  /\ calls' = Append(calls, Call(AggregateOp, err, SearchLimit))
           /\ movies' = (IF err = "" THEN CollectionAfter(AggregateOp, movies) ELSE movies)
           /\ IF err # ""
              THEN resp' = Error500(err)
              ELSE \E directors \in SearchDirectorsPipeline(movies, locals.query) :
                      resp' = [status |-> 200,
                               body |-> [genres |-> FormatGenres(locals.genres),
                                         directors |-> FormatDirectors(directors)]]
    /\ pc' = "done"
    /\ UNCHANGED <<health, req, locals, held>>

\* get_stats: total_movies = collection.count_documents({})
get_stats ==
    /\ pc = "get_stats"
    /\ LET err == CallError(health, TRUE)
       IN  /\ calls' = Append(calls, Call(CountOp, err, 0))
           /\ movies' = (IF err = "" THEN CollectionAfter(CountOp, movies) ELSE movies)
           /\ IF err # ""
              THEN /\ resp' = Error500(err)
                   /\ pc' = "done"
                   /\ UNCHANGED locals
              ELSE /\ locals' = [locals EXCEPT !.total_movies = CountDocuments(movies)]
                   /\ pc' = "get_stats_genres"
                   /\ UNCHANGED resp
    /\ UNCHANGED <<health, req, held>>

\* get_stats: the distinct-genre aggregation
get_stats_genres ==
    /\ pc = "get_stats_genres"
    /\ LET err == CallError(health, TRUE)
       IN  /\ calls' = Append(calls, Call(AggregateOp, err, 0))
           /\ movies' = (IF err = "" THEN CollectionAfter(AggregateOp, movies) ELSE movies)
           /\ IF err # ""
              THEN /\ resp' = Error500(err)
                   /\ pc' = "done"
                   /\ UNCHANGED locals
              ELSE /\ locals' = [locals EXCEPT
                                   !.total_genres = TotalGenres(StatsGenresPipeline(movies))]
                   /\ pc' = "get_stats_director"
                   /\ UNCHANGED resp
    /\ UNCHANGED <<health, req, held>>

\* get_stats: the top-director aggregation and the response
get_stats_director ==
    /\ pc = "get_stats_director"
    /\ LET err == CallError(health, TRUE)
       IN  /\ calls' = Append(calls, Call(AggregateOp, err, StatsDirectorLimit))
           /\ movies' = (IF err = "" THEN CollectionAfter(AggregateOp, movies) ELSE movies)
           /\ IF err # ""
              THEN resp' = Error500(err)
              ELSE \E top_director \in StatsDirectorPipeline(movies) :
                      resp' = [status |-> 200,
                               body |-> [total_movies |-> locals.total_movies,
                                         total_genres |-> locals.total_genres,
                                         top_director |-> TopDirector(top_director)]]
    /\ pc' = "done"
    /\ UNCHANGED <<health, req, locals, held>>

-----------------------------------------------------------------------------
(* The environment.                                                        *)

\* the store becomes unreachable
StoreGoesDown ==
    /\ health = "up"
    /\ health' = "down"
    /\ UNCHANGED <<movies, pc, req, locals, resp, calls, held>>

\* the store becomes reachable again
StoreComesUp ==
    /\ health = "down"
    /\ health' = "up"
    /\ UNCHANGED <<movies, pc, req, locals, resp, calls, held>>

\* another client of the store inserts a document
InsertMovie(id) ==
    /\ id \notin movies
    /\ pc = "idle" \/ Cardinality(held) <= MaxWrites
    /\ movies' = movies \cup {id}
    /\ held' = IF pc = "idle" THEN {movies'} ELSE held \cup {movies'}
    /\ UNCHANGED <<health, pc, req, locals, resp, calls>>

\* another client of the store deletes a document
DeleteMovie(id) ==
    /\ id \in movies
    /\ pc = "idle" \/ Cardinality(held) <= MaxWrites
    /\ movies' = movies \ {id}
    /\ held' = IF pc = "idle" THEN {movies'} ELSE held \cup {movies'}
    /\ UNCHANGED <<health, pc, req, locals, resp, calls>>

Next ==
    \/ \E endpoint \in Endpoints : \E args \in ArgsOf(endpoint) : Receive(endpoint, args)
    \/ Respond
    \/ index
    \/ get_top_genres
    \/ get_top_directors_revenue
    \/ search
    \/ search_directors
    \/ get_stats
    \/ get_stats_genres
    \/ get_stats_director
    \/ StoreGoesDown
    \/ StoreComesUp

\* the application alone: nothing else writes to the collection
Spec == Init /\ [][Next]_vars

NextConc ==
    \/ Receive("get_stats", NoArgs)
    \/ Respond
    \/ get_stats
    \/ get_stats_genres
    \/ get_stats_director
    \/ StoreGoesDown
    \/ StoreComesUp
    \/ \E id \in MovieIds : InsertMovie(id)
    \/ \E id \in MovieIds : DeleteMovie(id)

\* get_stats next to other clients that insert and delete documents
SpecConc == Init /\ [][NextConc]_vars

-----------------------------------------------------------------------------
(* Reference definitions for the properties: what the reports are about,   *)
(* stated over the stored documents without the pipeline stages.           *)

Done(endpoint) == pc = "done" /\ req.endpoint = endpoint
Ok(endpoint) == Done(endpoint) /\ resp.status = 200

GenreEntries(docs) ==
    UNION {{<<d, i>> : i \in DOMAIN Catalogue[d].genres} : d \in docs}

DirectorEntries(docs) ==
    {e \in UNION {{<<d, i>> : i \in DOMAIN Catalogue[d].crew} : d \in docs} :
        Catalogue[e[1]].crew[e[2]].job = "Director"}

GenreNames(docs) == {Catalogue[e[1]].genres[e[2]].name : e \in GenreEntries(docs)}
DirectorNames(docs) == {Catalogue[e[1]].crew[e[2]].name : e \in DirectorEntries(docs)}

RECURSIVE RevenueOver(_)
RevenueOver(entries) ==
    IF entries = {} THEN 0
    ELSE LET e == CHOOSE x \in entries : TRUE
         IN  Catalogue[e[1]].revenue + RevenueOver(entries \ {e})

DirectorRevenue(docs, name) ==
    RevenueOver({e \in DirectorEntries(docs) : Catalogue[e[1]].crew[e[2]].name = name})

\* a value get_stats may report as top_director for the documents docs
IsTopDirectorOf(top, docs) ==
    IF DirectorNames(docs) = {} THEN top = Null
    ELSE /\ top # Null
         /\ top._id \in DirectorNames(docs)
         /\ top.ingresos_totales = DirectorRevenue(docs, top._id)
         /\ \A n \in DirectorNames(docs) : DirectorRevenue(docs, n) <= top.ingresos_totales

NonDecreasing(vals) == \A i \in 1..(Len(vals) - 1) : vals[i] <= vals[i + 1]
NonIncreasing(vals) == \A i \in 1..(Len(vals) - 1) : vals[i] >= vals[i + 1]

Reports == {"get_top_genres", "get_top_directors_revenue"}

\* the sorted field of the rows of a report response
SortedVals ==
    [i \in 1..Len(resp.body.list) |->
        IF req.endpoint = "get_top_genres" THEN resp.body.list[i].conteo
        ELSE resp.body.list[i].ingresos_totales]

UpperOf(endpoint) == IF endpoint = "get_top_genres" THEN 50 ELSE 30
DefaultOf(endpoint) == IF endpoint = "get_top_genres" THEN 10 ELSE 5

-----------------------------------------------------------------------------
C2_EffectiveLimit ==
    (pc = "done" /\ req.endpoint \in Reports) =>
        LET U == UpperOf(req.endpoint)
            D == DefaultOf(req.endpoint)
            given == "limit" \in DOMAIN req.args
            text == IF given THEN req.args["limit"] ELSE <<>>
            n == IF given /\ IsIntText(text) THEN IntOfText(text) ELSE D
            used == calls[1].limit
        IN  /\ Len(calls) = 1
            /\ used = (IF n > U THEN U ELSE IF n < 1 THEN 1 ELSE n)
            /\ used \in 1..U
            /\ ~given => used = D
            /\ (given /\ text \in {<<>>, <<"-">>, <<"4", "-">>, <<"-", "-">>}) => used = D
            /\ (given /\ text \in {<<"0">>, <<"-", "4">>, <<"-", "0">>}) => used = 1
            /\ (given /\ text \in {<<"9", "9">>, <<"9", "0">>}) => used = U
            /\ (given /\ text = <<"4", "9">>) => used = (IF U = 50 THEN 49 ELSE 30)
            /\ (given /\ text = <<"0", "4">>) => used = 4
            /\ resp.status # 200 => (resp.status = 500 /\ ~calls[1].ok)

C2_Witness ==
    /\ Ok("get_top_genres")
    /\ "limit" \in DOMAIN req.args /\ req.args["limit"] = <<"9", "9">>
    /\ calls[1].limit = 50

(* C3: a search whose q is missing or empty returns 400 with the body      *)
(* {"error": "Parámetro 'q' requerido"} and issues no store call; a search *)
(* with a non-empty q never returns 400.                                   *)
C3_SearchNeedsQ ==
    (req.endpoint = "search" /\ pc # "search") =>
        IF "q" \notin DOMAIN req.args \/ req.args["q"] = <<>>
        THEN /\ pc = "done"
             /\ resp = [status |-> 400, body |-> [error |-> "Parámetro 'q' requerido"]]
             /\ calls = <<>>
        ELSE resp.status # 400 /\ calls # <<>>

C3_Witness ==
    /\ Done("search")
    /\ "q" \in DOMAIN req.args /\ req.args["q"] = <<>>
    /\ resp.status = 400
    /\ calls = <<>>

(* C4: when a store call of a request fails, whichever call it is, the     *)
(* request ends at once with status 500 and a body that is exactly         *)
(* {"error": message}; the failed call is the last call of the request.    *)
C4_FailureIs500 ==
    \A i \in DOMAIN calls :
        ~calls[i].ok =>
            /\ i = Len(calls)
            /\ pc = "done"
            /\ resp.status = 500
            /\ DOMAIN resp.body = {"error"}
            /\ resp.body.error \in
                  {CallError("unbound", TRUE), CallError("down", TRUE), CallError("up", FALSE)}

C4_Witness ==
    /\ Done("get_stats")
    /\ Len(calls) = 3
    /\ calls[1].ok /\ calls[2].ok /\ ~calls[3].ok
    /\ resp.status = 500
    /\ locals.total_movies > 0 /\ locals.total_genres > 0

(* C5 (as stated): the index endpoint returns 200 with the payload         *)
(* {status: "API running", db_connected: true} in every state of the       *)
(* store and makes no store call.                                          *)
C5_IndexPayloadEnglish ==
    Done("index") =>
        /\ resp = [status |-> 200,
                   body |-> [status |-> "API running", db_connected |-> TRUE]]
        /\ calls = <<>>

(* C5 (amended): the index endpoint returns 200 with the payload           *)
(* {status: "API corriendo", db_conectada: true} in every state of the     *)
(* store and makes no store call.                                          *)
C5_IndexPayload ==
    Done("index") =>
        /\ resp = [status |-> 200,
                   body |-> [status |-> "API corriendo", db_conectada |-> TRUE]]
        /\ calls = <<>>

C5_Witness == Done("index") /\ health = "unbound" /\ resp.status = 200

(* C6: get_stats on an empty collection returns 200 with total_movies 0,   *)
(* total_genres 0 and top_director null; total_genres is 0 whenever no     *)
(* movie has a genre entry, top_director is null whenever no crew entry    *)
(* has job "Director", and otherwise it is a group of largest summed       *)
(* revenue.                                                                *)
C6_StatsValues ==
    Ok("get_stats") =>
        /\ movies = {} =>
              resp.body = [total_movies |-> 0, total_genres |-> 0, top_director |-> Null]
        /\ GenreEntries(movies) = {} => resp.body.total_genres = 0
        /\ DirectorEntries(movies) = {} => resp.body.top_director = Null
        /\ IsTopDirectorOf(resp.body.top_director, movies)

C6_Witness ==
    /\ Ok("get_stats")
    /\ movies = {}
    /\ resp.body.top_director = Null

(* C7: the rows returned never exceed the limit in effect: the clamped     *)
(* limit for the two reports (at most 50 and 30), and 10 for each of the   *)
(* genres and directors sequences of a search.                             *)
C7_RowsWithinLimit ==
    /\ Ok("get_top_genres") =>
          Len(resp.body.list) <= calls[1].limit /\ Len(resp.body.list) <= 50
    /\ Ok("get_top_directors_revenue") =>
          Len(resp.body.list) <= calls[1].limit /\ Len(resp.body.list) <= 30
    /\ Ok("search") =>
          Len(resp.body.genres) <= 10 /\ Len(resp.body.directors) <= 10

C7_Witness ==
    /\ Ok("search")
    /\ Cardinality({n \in GenreNames(movies) : RegexSearch(req.args["q"], n)}) > 10
    /\ Len(resp.body.genres) = 10

(* C8: no request handler changes the movie collection: across every step  *)
(* of every request the stored documents stay the same, and every store    *)
(* call issued is an aggregate or a count_documents.                       *)
C8_ReadOnly ==
    [][/\ movies' = movies
       /\ \A i \in DOMAIN calls' : calls'[i].op \in {"aggregate", "count_documents"}]_vars

C8_Witness ==
    /\ Ok("get_stats")
    /\ Len(calls) = 3
    /\ movies # {}
    /\ calls[1].at = movies

(* C9: the ingresos_totales reported for a director is the sum, over every *)
(* crew entry with job exactly "Director" and that name, of the movie's    *)
(* revenue: other jobs add nothing, k Director entries of one movie add k  *)
(* times its revenue.                                                      *)
C9_DirectorRevenueSum ==
    Ok("get_top_directors_revenue") =>
        \A i \in DOMAIN resp.body.list :
            /\ resp.body.list[i].director \in DirectorNames(movies)
            /\ resp.body.list[i].ingresos_totales =
                  DirectorRevenue(movies, resp.body.list[i].director)

C9_Witness ==
    /\ Ok("get_top_directors_revenue")
    /\ movies = {1, 3}
    /\ \E i \in DOMAIN resp.body.list :
          resp.body.list[i] = [director |-> Ana, ingresos_totales |-> 150]
    /\ \E i \in DOMAIN resp.body.list :
          resp.body.list[i] = [director |-> Cy, ingresos_totales |-> 25]

(* C10 (as stated): every successful get_stats response describes one      *)
(* store state held at some instant of the request, in which the three     *)
(* values are all as returned, whatever other clients write meanwhile.     *)
C10_OneSnapshot ==
    Ok("get_stats") =>
        \E s \in held :
            /\ resp.body.total_movies = Cardinality(s)
            /\ resp.body.total_genres = Cardinality(GenreNames(s))
            /\ IsTopDirectorOf(resp.body.top_director, s)

(* C10 (amended): in every successful get_stats response each of the three *)
(* values is the one of the store state at the instant of its own store    *)
(* call; the three calls may see three different states.                   *)
C10_PerCallSnapshot ==
    Ok("get_stats") =>
        /\ Len(calls) = 3
        /\ \A i \in 1..3 : calls[i].at \in held
        /\ resp.body.total_movies = Cardinality(calls[1].at)
        /\ resp.body.total_genres = Cardinality(GenreNames(calls[2].at))
        /\ IsTopDirectorOf(resp.body.top_director, calls[3].at)

C10_Witness ==
    /\ Ok("get_stats")
    /\ resp.body.total_movies = 0
    /\ resp.body.total_genres > 0
    /\ resp.body.top_director # Null

====
